---- MODULE Spec2Model ----
(***************************************************************************)
(* Model of examples/mma_simplehash/solve.py: the three symbolic summary   *)
(* procedures (mm, moddi3, isalnum) and the driver main().                 *)
(*                                                                         *)
(* Bit-vectors are modelled at their real width.  A bit-vector of 8*n bits *)
(* is a sequence of n limbs in 0..255, least significant limb first, so    *)
(* that 64-bit and 128-bit arithmetic stays within TLC's 32-bit integers.  *)
(***************************************************************************)
EXTENDS Integers, Sequences, FiniteSets, TLC

VARIABLES pc,          \* position in the running procedure
          exc,         \* the exception raised, "none" when there is none
          args, ret, edx,   \* a summary call: its arguments, return value, edx
          s,           \* main's root state, <<>> before it is made
          active,      \* the simulation manager's active stash (the Frontier)
          found,       \* the simulation manager's found stash
          hist,        \* what the last exploration step dropped
          flag_state, flag_data,   \* main's locals, <<>> before they are set
          solution,    \* the value solver.eval produced, <<>> before
          result       \* main's return value, <<>> before

vars == <<pc, exc, args, ret, edx, s, active, found, hist,
          flag_state, flag_data, solution, result>>

mainvars == <<s, active, found, hist, flag_state, flag_data, solution, result>>

----------------------------------------------------------------------------
(* Bit-vector operations (claripy semantics: fixed width, unsigned).        *)

\* state.arch.bits: registers and procedure arguments are 32 bits wide
ArchBits == 32

NLimbs(bits) == bits \div 8

RECURSIVE BVVLimbs(_, _)
BVVLimbs(n, k) == IF k = 0 THEN <<>> ELSE <<n % 256>> \o BVVLimbs(n \div 256, k - 1)

\* claripy.BVV(n, bits) for a small natural n
BVV(n, bits) == BVVLimbs(n, NLimbs(bits))

Zeros(k) == [i \in 1..k |-> 0]

IsZero(x) == \A i \in 1..Len(x) : x[i] = 0

\* hi.concat(lo): hi becomes the most significant part
Concat(hi, lo) == lo \o hi

\* claripy.Extract(high, low, x) on limb-aligned bit positions
Extract(high, low, x) == SubSeq(x, low \div 8 + 1, (high + 1) \div 8)

\* claripy.ZeroExt(bits, x)
ZeroExt(bits, x) == x \o Zeros(NLimbs(bits))

\* propagate carries through column sums; the carry out of the top limb is lost
RECURSIVE CarryFrom(_, _, _)
CarryFrom(cols, i, c) ==
    IF i > Len(cols) THEN <<>>
    ELSE LET t == cols[i] + c
         IN  <<t % 256>> \o CarryFrom(cols, i + 1, t \div 256)

RECURSIVE ColSum(_, _, _, _)
ColSum(a, b, k, i) ==
    IF i > k THEN 0 ELSE a[i] * b[k + 1 - i] + ColSum(a, b, k, i + 1)

\* a * b on bit-vectors of equal width: the product modulo 2^width
Mul(a, b) == CarryFrom([k \in 1..Len(a) |-> ColSum(a, b, k, 1)], 1, 0)

\* the carry into limb i of a + b + c0 (c0 in 0..1)
CarryIn(a, b, c0, i) ==
    \/ \E j \in 1..(i - 1) : /\ a[j] + b[j] > 255
                             /\ \A m \in (j + 1)..(i - 1) : a[m] + b[m] = 255
    \/ c0 = 1 /\ \A m \in 1..(i - 1) : a[m] + b[m] = 255

AddC(a, b, c0) ==
    [i \in 1..Len(a) |-> (a[i] + b[i] + (IF CarryIn(a, b, c0, i) THEN 1 ELSE 0)) % 256]

\* a + b modulo 2^width
Add(a, b) == AddC(a, b, 0)

\* a - b modulo 2^width: a plus the complement of b plus one
Sub(a, b) == AddC(a, [i \in 1..Len(b) |-> 255 - b[i]], 1)

\* -1, 0, 1 as a is below, equal to or above b (unsigned)
Cmp(a, b) ==
    LET D == {i \in 1..Len(a) : a[i] # b[i]}
    IN  IF D = {} THEN 0
        ELSE LET top == CHOOSE i \in D : \A j \in D : j <= i
             IN  IF a[top] > b[top] THEN 1 ELSE -1

\* unsigned comparisons (claripy's >=, <=, < on bit-vectors are unsigned)
UGE(a, b) == Cmp(a, b) >= 0
ULE(a, b) == Cmp(a, b) <= 0
ULT(a, b) == Cmp(a, b) < 0

Bit(x, i) == (x[i \div 8 + 1] \div (2 ^ (i % 8))) % 2

\* x shifted left by one bit, with bit b0 shifted in
Shl1(x, b0) ==
    [i \in 1..Len(x) |-> ((2 * x[i]) % 256) + (IF i = 1 THEN b0 ELSE x[i - 1] \div 128)]

\* one step of restoring long division, for bit i of the dividend a
DivStep(a, bx, i, st) ==
    LET sh == Shl1(st.r, Bit(a, i))
    IN  IF UGE(sh, bx)
        THEN [q |-> Shl1(st.q, 1), r |-> Sub(sh, bx)]
        ELSE [q |-> Shl1(st.q, 0), r |-> sh]

\* the steps for bits hi-1 down to lo of the dividend; the upper half of the
\* range is evaluated (its width inspected) before the lower half starts
RECURSIVE DivRange(_, _, _, _, _)
DivRange(a, bx, hi, lo, st) ==
    IF hi - lo = 1 THEN DivStep(a, bx, lo, st)
    ELSE LET mid   == (hi + lo) \div 2
             upper == DivRange(a, bx, hi, mid, st)
         IN  IF Len(upper.r) = 0 THEN upper
             ELSE DivRange(a, bx, mid, lo, upper)

\* q and r carry one spare limb during the division
DivMod(a, b) ==
    LET n == Len(a)
        d == DivRange(a, b \o <<0>>, 8 * n, 0, [q |-> Zeros(n + 1), r |-> Zeros(n + 1)])
    IN  [q |-> SubSeq(d.q, 1, n), r |-> SubSeq(d.r, 1, n)]

\* unsigned quotient and remainder for a nonzero divisor
UDiv(a, b) == DivMod(a, b).q
URem(a, b) == DivMod(a, b).r

\* a % b on bit-vectors.  No source line guards the divisor; with a zero
\* divisor the outcome is the bit-vector library's: the solver's bvurem gives
\* the dividend back, the concrete backend raises ClaripyZeroDivisionError.
ModOutcomes(a, b) ==
    IF IsZero(b)
    THEN {[exc |-> "none", val |-> a],
          [exc |-> "ClaripyZeroDivisionError", val |-> <<>>]}
    ELSE {[exc |-> "none", val |-> URem(a, b)]}

----------------------------------------------------------------------------
(* The summary procedures.                                                  *)

\* 1000000000000037 as a 64-bit bit-vector (0x00038D7EA4C68025)
P == <<37, 128, 198, 164, 126, 141, 3, 0>>

mm_run(low1, high1, low2, high2) ==
    LET first  == Concat(high1, low1)
        second == Concat(high2, low2)
        res    == URem(Mul(first, second), P)
    IN  [exc |-> "none", edx |-> Extract(63, 32, res), ret |-> Extract(31, 0, res)]

\* moddi3.run with the halves of the dividend joined the wrong way round
moddi3_run_swapped(a, a2, b, b2) ==
    LET first  == Concat(a, a2)
        second == Concat(b2, b)
    IN  {IF o.exc = "none"
         THEN [exc |-> "none", edx |-> Extract(63, 32, o.val), ret |-> Extract(31, 0, o.val)]
         ELSE [exc |-> o.exc, edx |-> <<>>, ret |-> <<>>] : o \in ModOutcomes(first, second)}

moddi3_run(a, a2, b, b2) ==
    LET first  == Concat(a2, a)
        second == Concat(b2, b)
    IN  {IF o.exc = "none"
         THEN [exc |-> "none", edx |-> Extract(63, 32, o.val), ret |-> Extract(31, 0, o.val)]
         ELSE [exc |-> o.exc, edx |-> <<>>, ret |-> <<>>] : o \in ModOutcomes(first, second)}

ord_0 == 48
ord_9 == 57
ord_a == 97
ord_z == 122
ord_A == 65
ord_Z == 90

\* isalnum.run with the lower bound of the digit range exclusive
isalnum_run_exclusive(c) ==
    LET is_num         == ULT(BVV(ord_0, ArchBits), c) /\ ULE(c, BVV(ord_9, ArchBits))
        is_alpha_lower == UGE(c, BVV(ord_a, ArchBits)) /\ ULE(c, BVV(ord_z, ArchBits))
        is_alpha_upper == UGE(c, BVV(ord_A, ArchBits)) /\ ULE(c, BVV(ord_Z, ArchBits))
        isalphanum     == is_num \/ is_alpha_lower \/ is_alpha_upper
    IN  IF isalphanum THEN BVV(1, ArchBits) ELSE BVV(0, ArchBits)

isalnum_run(c) ==
    LET is_num         == UGE(c, BVV(ord_0, ArchBits)) /\ ULE(c, BVV(ord_9, ArchBits))
        is_alpha_lower == UGE(c, BVV(ord_a, ArchBits)) /\ ULE(c, BVV(ord_z, ArchBits))
        is_alpha_upper == UGE(c, BVV(ord_A, ArchBits)) /\ ULE(c, BVV(ord_Z, ArchBits))
        isalphanum     == is_num \/ is_alpha_lower \/ is_alpha_upper
    IN  IF isalphanum THEN BVV(1, ArchBits) ELSE BVV(0, ArchBits)

----------------------------------------------------------------------------
(* Inputs of the summary specifications.                                    *)

\* 32-bit argument values: 0, 1, 0xFFFFFFFF and the low and high halves of P
Words == { <<0, 0, 0, 0>>, <<1, 0, 0, 0>>, <<255, 255, 255, 255>>,
           <<37, 128, 198, 164>>, <<126, 141, 3, 0>> }

\* arguments of isalnum: every byte value, and the same low byte with bit 8 set
Chars == { <<b, h, 0, 0>> : b \in 0..255, h \in 0..1 }

NoMain ==
    /\ s = <<>> /\ active = <<>> /\ found = <<>> /\ hist = <<>>
    /\ flag_state = <<>> /\ flag_data = <<>> /\ solution = <<>> /\ result = <<>>

Call(as) ==
    /\ pc = "call" /\ args = as
    /\ ret = <<>> /\ edx = <<>> /\ exc = "none"
    /\ NoMain

Return(o) ==
    /\ pc' = "ret"
    /\ ret' = o.ret /\ edx' = o.edx /\ exc' = o.exc
    /\ UNCHANGED <<args, mainvars>>

InitMM == \E l1 \in Words, h1 \in Words, l2 \in Words, h2 \in Words :
              Call(<<l1, h1, l2, h2>>)

RunMM == /\ pc = "call"
         /\ Return(mm_run(args[1], args[2], args[3], args[4]))

SpecMM == InitMM /\ [][RunMM]_vars

InitModdi3 == \E a \in Words, a2 \in Words, b \in Words, b2 \in Words :
                  Call(<<a, a2, b, b2>>)

RunModdi3 == /\ pc = "call"
             /\ \E o \in moddi3_run(args[1], args[2], args[3], args[4]) : Return(o)

SpecModdi3 == InitModdi3 /\ [][RunModdi3]_vars

InitIsalnum == \E c \in Chars : Call(<<c>>)

RunIsalnum == /\ pc = "call"
              /\ Return([exc |-> "none", edx |-> <<>>, ret |-> isalnum_run(args[1])])

SpecIsalnum == InitIsalnum /\ [][RunIsalnum]_vars

----------------------------------------------------------------------------
(* The driver main().                                                       *)

\* b.hook(address, summary)
mm_addr == 134514668
moddi3_addr == 134514304
isalnum_addr == 134514400

hooks == {mm_addr, moddi3_addr, isalnum_addr}

\* blank_state(addr=0x8048A63)
StartAddr == 134515299

\* memory.store(0x080491A0, BVS("ans", 999*8))
BufAddr == 134517152
AnsBytes == 999

\* explore(find=0x8048A94, avoid=0x8048AF6)
FindAddr == 134515348

\* explore called with the find address as the avoid address too
AvoidAddr_same == FindAddr

AvoidAddr == 134515446

\* memory.load(0x080491A0, 100)
LoadBytes == 100

\* The assignments of the 999 input bytes that the solver tells apart.  A
\* state's path constraints are the set of the assignments satisfying them.
NInputs == 3

Ids == 1..NInputs

Fill(head, byte, n) ==
    [i \in 1..AnsBytes |-> IF i <= Len(head) THEN head[i]
                           ELSE IF i <= n THEN byte ELSE 0]

\* even: "ab", newline, then NULs.  1 mod 4: newline, "ab", then NULs.
\* 3 mod 4: 150 times "a", then NULs.
Input(m) ==
    IF m % 2 = 0 THEN Fill(<<97, 98, 10>>, 0, 0)
    ELSE IF m % 4 = 1 THEN Fill(<<10, 97, 98>>, 0, 0)
    ELSE Fill(<<>>, 97, 150)

\* s = blank_state(addr); s.memory.store(BufAddr, ans): the input is unconstrained
blank_state(addr) ==
    [addr |-> addr, mem |-> [base |-> BufAddr, size |-> AnsBytes], sat |-> Ids]

\* state.memory.load(addr, size): the bytes of ans it covers
memory_load(st, addr, size) ==
    [offset |-> addr - st.mem.base, size |-> size]

\* flag_state = s: the root state's solver used instead of the found state's
solver_of_root(st) == s[1].sat

\* the models of st.solver: the assignments satisfying st's path constraints
solver_of(st) == st.sat

\* the concrete value of the loaded bytes under assignment m
eval(data, m) == SubSeq(Input(m), data.offset + 1, data.offset + data.size)

\* the bytes strip() removes: b'\0\n'
StripChars == {0, 10}

lstrip(bytes) ==
    LET keep == {i \in 1..Len(bytes) : bytes[i] \notin StripChars}
    IN  IF keep = {} THEN <<>>
        ELSE SubSeq(bytes, CHOOSE i \in keep : \A j \in keep : i <= j, Len(bytes))

rstrip(bytes) ==
    LET keep == {i \in 1..Len(bytes) : bytes[i] \notin StripChars}
    IN  IF keep = {} THEN <<>>
        ELSE SubSeq(bytes, 1, CHOOSE i \in keep : \A j \in keep : j <= i)

\* rstrip() where strip() is meant
strip_trailing(bytes) == rstrip(bytes)

\* bytes.strip(b'\0\n')
strip(bytes) == rstrip(lstrip(bytes))

\* sm.active[0] where sm.found[0] is meant
active_0 == IF active = <<>> THEN found[1] ELSE active[1]

\* sm.found[0]
found_0 == found[1]

(* The exploration sm.explore(find, avoid).  The program explored is not  *)
(* part of the source: a step may lead anywhere and branch on any          *)
(* condition over the input.                                               *)

\* the most states the active stash holds
MaxActive == 3

Addrs == {StartAddr, mm_addr, FindAddr, AvoidAddr}

\* the successors of one step of st, before feasibility is checked
Successors(st) ==
    IF st.addr \in hooks
    THEN \* the summary runs and returns to its caller: no fork
         { <<[st EXCEPT !.addr = a]>> : a \in Addrs }
    ELSE {<<>>}
         \cup { <<[st EXCEPT !.addr = a]>> : a \in Addrs }
         \cup { <<[st EXCEPT !.addr = a1, !.sat = st.sat \cap B],
                  [st EXCEPT !.addr = a2, !.sat = st.sat \ B]>> :
                    a1 \in Addrs, a2 \in Addrs, B \in SUBSET Ids }

satisfiable(st) == st.sat # {}
at_find(st) == st.addr = FindAddr
at_avoid(st) == st.addr = AvoidAddr /\ ~at_find(st)
stays(st) == ~at_find(st) /\ ~at_avoid(st)

\* every successor is kept, feasible or not
Feasible_all(succ) == succ

\* the solver's check drops the infeasible successors
Feasible(succ) == SelectSeq(succ, satisfiable)

InitMain ==
    /\ pc = "blank_state" /\ exc = "none"
    /\ args = <<>> /\ ret = <<>> /\ edx = <<>>
    /\ s = <<>> /\ active = <<>> /\ found = <<>>
    /\ hist = [avoid |-> 0, unsat |-> 0]
    /\ flag_state = <<>> /\ flag_data = <<>> /\ solution = <<>> /\ result = <<>>

main_blank_state ==
    /\ pc = "blank_state"
    /\ s' = <<blank_state(StartAddr)>>
    /\ pc' = "simulation_manager"
    /\ UNCHANGED <<exc, args, ret, edx, active, found, hist,
                   flag_state, flag_data, solution, result>>

main_simulation_manager ==
    /\ pc = "simulation_manager"
    /\ active' = s
    /\ pc' = "explore"
    /\ UNCHANGED <<exc, args, ret, edx, s, found, hist,
                   flag_state, flag_data, solution, result>>

\* the search is over: a state was found or no state is left
complete == found # <<>> \/ active = <<>>

explore_step ==
    /\ pc = "explore" /\ ~complete
    /\ \E i \in 1..Len(active) :
       \E succ \in Successors(active[i]) :
          LET rest == SubSeq(active, 1, i - 1) \o SubSeq(active, i + 1, Len(active))
              kept == Feasible(succ)
          IN  /\ active' = rest \o SelectSeq(kept, stays)
              /\ Len(active') <= MaxActive
              /\ found' = found \o SelectSeq(kept, at_find)
              /\ hist' = [avoid |-> Len(SelectSeq(kept, at_avoid)),
                          unsat |-> Len(succ) - Len(kept)]
    /\ UNCHANGED <<pc, exc, args, ret, edx, s, flag_state, flag_data, solution, result>>

explore_return ==
    /\ pc = "explore" /\ complete
    /\ pc' = "flag_state"
    /\ UNCHANGED <<exc, args, ret, edx, s, active, found, hist,
                   flag_state, flag_data, solution, result>>

main_flag_state ==
    /\ pc = "flag_state"
    /\ IF found = <<>>
       THEN /\ exc' = "IndexError" /\ pc' = "raised"
            /\ UNCHANGED flag_state
       ELSE /\ flag_state' = <<found_0>> /\ pc' = "load"
            /\ UNCHANGED exc
    /\ UNCHANGED <<args, ret, edx, s, active, found, hist, flag_data, solution, result>>

main_load ==
    /\ pc = "load"
    /\ flag_data' = <<memory_load(flag_state[1], BufAddr, LoadBytes)>>
    /\ pc' = "return"
    /\ UNCHANGED <<exc, args, ret, edx, s, active, found, hist,
                   flag_state, solution, result>>

main_return ==
    /\ pc = "return"
    /\ \E m \in solver_of(flag_state[1]) :
          /\ solution' = [model |-> m, bytes |-> eval(flag_data[1], m)]
          /\ result' = <<strip(eval(flag_data[1], m))>>
    /\ pc' = "done"
    /\ UNCHANGED <<exc, args, ret, edx, s, active, found, hist, flag_state, flag_data>>

Next ==
    \/ main_blank_state
    \/ main_simulation_manager
    \/ explore_step
    \/ explore_return
    \/ main_flag_state
    \/ main_load
    \/ main_return

Spec == InitMain /\ [][Next]_vars

----------------------------------------------------------------------------
(* Claims about the summary procedures.                                     *)

\* the untruncated product of two bit-vectors, as wide as both together
FullMul(a, b) == Mul(ZeroExt(8 * Len(b), a), ZeroExt(8 * Len(a), b))

IsByte(c) == \A i \in 2..Len(c) : c[i] = 0

mm_first == Concat(args[2], args[1])
mm_second == Concat(args[4], args[3])

\* C1: mm.run delivers ((high1:low1) * (high2:low2)) mod 1000000000000037,
\* the product being the full 128-bit product, low half returned and high
\* half in edx.
C1_FullProductModP ==
    pc = "ret" =>
        /\ exc = "none"
        /\ Concat(edx, ret) =
               Extract(63, 0, URem(FullMul(mm_first, mm_second), ZeroExt(64, P)))

\* C2: for every byte value c, isalnum.run returns 1 exactly when c is in
\* '0'..'9' (48..57), 'A'..'Z' (65..90) or 'a'..'z' (97..122), and 0 otherwise.
C2_Classification ==
    (pc = "ret" /\ IsByte(args[1])) =>
        ret = IF args[1][1] \in (48..57) \cup (65..90) \cup (97..122)
              THEN <<1, 0, 0, 0>> ELSE <<0, 0, 0, 0>>

\* isalnum.run has returned 0 for a byte next to a range and 1 is not returned
\* for it: here '9'+1
C2_Witness ==
    pc = "ret" /\ args[1] = <<58, 0, 0, 0>> /\ ret = <<0, 0, 0, 0>>

dividend == Concat(args[2], args[1])
divisor == Concat(args[4], args[3])

\* C3: for a nonzero divisor (b2:b), moddi3.run delivers (a2:a) mod (b2:b):
\* the value r = edx:ret is below the divisor and dividend = q * divisor + r
\* for the quotient q, computed without truncation.
C3_Remainder ==
    (pc = "ret" /\ ~IsZero(divisor)) =>
        /\ exc = "none"
        /\ Len(ret) = 4 /\ Len(edx) = 4
        /\ ULT(Concat(edx, ret), divisor)
        /\ Add(FullMul(UDiv(dividend, divisor), divisor), ZeroExt(64, Concat(edx, ret)))
               = ZeroExt(64, dividend)

\* moddi3.run has returned a remainder with both halves nonzero for a dividend
\* above a divisor whose halves are both nonzero
C3_Witness ==
    /\ pc = "ret" /\ exc = "none"
    /\ ~IsZero(args[3]) /\ ~IsZero(args[4])
    /\ ULT(divisor, dividend)
    /\ ~IsZero(ret) /\ ~IsZero(edx)

\* C8: with a zero divisor moddi3.run signals an error instead of returning a
\* remainder value.
C8_DivisorZeroSignalled ==
    (pc = "ret" /\ IsZero(divisor)) => exc # "none"

----------------------------------------------------------------------------
(* Claims about the driver.                                                 *)

\* the exploration has returned to main
returned == pc \in {"flag_state", "load", "return", "done", "raised"}

\* C4: no state in Found, none kept in the Frontier to be stepped, and not
\* the state main takes as found, has its program counter at the avoid address.
C4_NeverAvoid ==
    /\ \A i \in 1..Len(found) : found[i].addr # AvoidAddr
    /\ \A i \in 1..Len(active) : active[i].addr # AvoidAddr
    /\ flag_state # <<>> => flag_state[1].addr # AvoidAddr

\* the last step discarded a state at the avoid address and main has taken
\* the found state
C4_Witness ==
    hist.avoid > 0 /\ flag_state # <<>>

\* the buffer content made of the returned bytes, a terminator and NUL padding
Place(bytes, term) == Fill(bytes \o term, 0, 0)

C7_NotFoundReported ==
    (returned /\ found = <<>> /\ pc # "flag_state") =>
        (exc = "none" /\ pc = "done")

\* C9: the search starts from the root state alone; it stops exactly when
\* Found is non-empty or the Frontier is empty, nothing is stepped after
\* that, main takes the first state of Found, and fails only with both empty.
C9_StopConditions ==
    /\ [](returned => (found # <<>> \/ active = <<>>))
    /\ [](flag_state # <<>> => (found # <<>> /\ flag_state[1] = found[1]))
    /\ [](pc \in {"load", "return", "done"} => flag_state # <<>>)
    /\ [](pc = "raised" => (found = <<>> /\ active = <<>>))
    /\ [][pc = "simulation_manager" =>
             (active' = <<blank_state(StartAddr)>> /\ found' = <<>>)]_vars
    /\ [][(pc \in {"explore", "flag_state", "load", "return"}
               /\ (found # <<>> \/ active = <<>>)) =>
             UNCHANGED <<active, found>>]_vars

\* main has taken the found state while the Frontier still held states
C9_Witness ==
    /\ flag_state # <<>>
    /\ active # <<>>
    /\ flag_state[1] = found[1]

\* C10: every state in Found or kept in the Frontier has a satisfiable
\* constraint set.
C10_Satisfiable ==
    /\ \A i \in 1..Len(found) : found[i].sat # {}
    /\ \A i \in 1..Len(active) : active[i].sat # {}

\* the last step dropped an infeasible successor and kept a feasible one
C10_Witness ==
    /\ hist.unsat > 0
    /\ active # <<>> \/ found # <<>>

====
